---- MODULE Spec2Model ----
(***************************************************************************)
(* The SDL/OpenGL camera sandbox of test_matrix: the event loop of main(), *)
(* the free-look camera it drives, and the Vec3f / Mat4f helpers.          *)
(*                                                                         *)
(* Numbers.  The C code computes in float.  Vector and matrix components   *)
(* are modelled in fixed point: the integer n stands for n / Scale, every  *)
(* float multiplication and division rounds to the nearest unit, and the   *)
(* quotient 0/0 is NaN, which every later operation propagates.  yaw_deg   *)
(* and pitch_deg only ever hold whole numbers (they start at 0 and change  *)
(* by the integer xrel / yrel), so they are kept as plain integers, with   *)
(* the rounding float applies to whole numbers beyond 2^24 (F32).  sinf    *)
(* and cosf are a table over whole degrees.                                *)
(***************************************************************************)
EXTENDS Integers, Sequences, FiniteSets, TLC

\* ------------------------------------------------------------------ bounds
\* Number of drag updates (mouse motion with the left button held) a run makes.
MaxDrags == 2

\* Largest magnitude of a vector component of the drill.
MathMax == 1

\* Largest seed of a matrix of the drill.
MatMax == 1

\* Largest size in bytes of a shader file.
MaxFile == 3

\* Relative motions an SDL_MOUSEMOTION event may carry (Sint32 xrel, yrel):
\* small steps, a step that reaches the pitch clamp, and one of 2^24.
XRels == {-1, 0, 1, 47, 16777216}
YRels == {-100, 0, 1, 100}

\* ------------------------------------------------------- float arithmetic
\* One unit of a float component: the value 1.0f.
Scale == 10000

\* The quotient 0.0f / 0.0f.
NaN == 999999999

\* Largest magnitude up to which float holds every whole number (2^24).
F32Exact == 16777216

Abs(n) == IF n < 0 THEN -n ELSE n

\* a / b rounded to the nearest integer, b > 0.
RDiv(a, b) == (2 * a + b) \div (2 * b)

RECURSIVE Ulp(_)
\* Spacing of the floats around the whole number a >= 0.
Ulp(a) == IF a < F32Exact THEN 1 ELSE 2 * Ulp(a \div 2)

\* The float nearest to the whole number n (ties to even): what the
\* conversion (float)n and a float sum of whole numbers yield.
F32(n) ==
    LET a == Abs(n)
        u == Ulp(a)
        q == a \div u
        r == a % u
        m == IF 2 * r < u THEN q
             ELSE IF 2 * r > u THEN q + 1
             ELSE IF q % 2 = 0 THEN q ELSE q + 1
    IN  IF n < 0 THEN -(m * u) ELSE m * u

IsNaN(a) == a = NaN

FNeg(a) == IF IsNaN(a) THEN NaN ELSE -a

FAdd(a, b) == IF IsNaN(a) \/ IsNaN(b) THEN NaN ELSE a + b

FSub(a, b) == IF IsNaN(a) \/ IsNaN(b) THEN NaN ELSE a - b

FMul(a, b) == IF IsNaN(a) \/ IsNaN(b) THEN NaN ELSE RDiv(a * b, Scale)

\* b is a vector length, so b >= 0, and b = 0 only for the zero vector: 0/0.
FDiv(a, b) == IF IsNaN(a) \/ IsNaN(b) \/ b = 0 THEN NaN ELSE RDiv(a * Scale, b)

RECURSIVE SqrtSearch(_, _, _)
\* Largest r in lo..hi with r * r <= n.
SqrtSearch(n, lo, hi) ==
    IF lo >= hi THEN lo
    ELSE LET mid == (lo + hi + 1) \div 2
         IN  IF mid * mid <= n THEN SqrtSearch(n, mid, hi)
             ELSE SqrtSearch(n, lo, mid - 1)

\* sqrtf of n / Scale^2 in units of 1 / Scale, rounded to nearest.
FSqrt(n) ==
    LET r == SqrtSearch(n, 0, 4 * Scale)
    IN  IF n - r * r > r THEN r + 1 ELSE r

\* sinf of k degrees, k in 0..90, in units of 1 / Scale.
SinTable ==
    << 0, 175, 349, 523, 698, 872, 1045, 1219, 1392, 1564, 1736, 1908, 2079,
       2250, 2419, 2588, 2756, 2924, 3090, 3256, 3420, 3584, 3746, 3907, 4067,
       4226, 4384, 4540, 4695, 4848, 5000, 5150, 5299, 5446, 5592, 5736, 5878,
       6018, 6157, 6293, 6428, 6561, 6691, 6820, 6947, 7071, 7193, 7314, 7431,
       7547, 7660, 7771, 7880, 7986, 8090, 8192, 8290, 8387, 8480, 8572, 8660,
       8746, 8829, 8910, 8988, 9063, 9135, 9205, 9272, 9336, 9397, 9455, 9511,
       9563, 9613, 9659, 9703, 9744, 9781, 9816, 9848, 9877, 9903, 9925, 9945,
       9962, 9976, 9986, 9994, 9998, 10000 >>

\* sinf(deg * M_PI / 180.0f) for a whole number of degrees.
SinDeg(deg) ==
    LET m == deg % 360
    IN  IF m <= 90 THEN SinTable[m + 1]
        ELSE IF m <= 180 THEN SinTable[180 - m + 1]
        ELSE IF m <= 270 THEN -SinTable[m - 180 + 1]
        ELSE -SinTable[360 - m + 1]

\* cosf(deg * M_PI / 180.0f) for a whole number of degrees.
CosDeg(deg) == SinDeg(deg + 90)

\* ------------------------------------------------------------ Vec3f, Mat4f
vec3f_get_length(vec) ==
    IF \E i \in 1..3 : IsNaN(vec[i]) THEN NaN
    ELSE FSqrt(vec[1] * vec[1] + vec[2] * vec[2] + vec[3] * vec[3])

vec3f_normalize(vec) ==
    LET length == vec3f_get_length(vec)
    IN  << FDiv(vec[1], length), FDiv(vec[2], length), FDiv(vec[3], length) >>

vec3f_cross_swapped(vec1, vec2) ==
    << FSub(FMul(vec2[2], vec1[3]), FMul(vec2[3], vec1[2])),
       FSub(FMul(vec2[3], vec1[1]), FMul(vec2[1], vec1[3])),
       FSub(FMul(vec2[1], vec1[2]), FMul(vec2[2], vec1[1])) >>

vec3f_cross_slip(vec1, vec2) ==
    << FSub(FMul(vec1[2], vec2[3]), FMul(vec1[3], vec2[2])),
       FSub(FMul(vec1[3], vec2[1]), FMul(vec1[1], vec2[3])),
       FSub(FMul(vec1[1], vec2[2]), FMul(vec1[2], vec2[2])) >>

vec3f_cross(vec1, vec2) ==
    << FSub(FMul(vec1[2], vec2[3]), FMul(vec1[3], vec2[2])),
       FSub(FMul(vec1[3], vec2[1]), FMul(vec1[1], vec2[3])),
       FSub(FMul(vec1[1], vec2[2]), FMul(vec1[2], vec2[1])) >>

mat4f_product_transposed(mat1, mat2) ==
    [i \in 1..4 |-> [j \in 1..4 |->
        FAdd(FAdd(FAdd(FAdd(0, FMul(mat1[i][1], mat2[j][1])),
                       FMul(mat1[i][2], mat2[j][2])),
                  FMul(mat1[i][3], mat2[j][3])),
             FMul(mat1[i][4], mat2[j][4]))]]

\* result[i][j] starts at 0.0f and adds mat1[i][k] * mat2[k][j] for k = 0..3.
mat4f_product(mat1, mat2) ==
    [i \in 1..4 |-> [j \in 1..4 |->
        FAdd(FAdd(FAdd(FAdd(0, FMul(mat1[i][1], mat2[1][j])),
                       FMul(mat1[i][2], mat2[2][j])),
                  FMul(mat1[i][3], mat2[3][j])),
             FMul(mat1[i][4], mat2[4][j]))]]

\* ------------------------------------------------------------------ camera
world_up == << 0, Scale, 0 >>

\* The pitch limit of the drag handler, in degrees.
PitchLimit == 89

ClampPitchNoUpper(p) == IF p < -PitchLimit THEN -PitchLimit ELSE p

ClampPitchAt90(p) ==
    IF p < -(PitchLimit + 1) THEN -(PitchLimit + 1)
    ELSE IF p > PitchLimit + 1 THEN PitchLimit + 1 ELSE p

ClampPitch(p) ==
    IF p < -PitchLimit THEN -PitchLimit
    ELSE IF p > PitchLimit THEN PitchLimit ELSE p

\* yaw_deg += event.motion.xrel: xrel is converted to float, the sum is a float.
YawAfter(yaw, xrel) == F32(yaw + F32(xrel))

PitchClampedFirst(pitch, yrel) == F32(ClampPitch(pitch) - F32(yrel))

\* pitch_deg -= event.motion.yrel, then the two clamping branches.
PitchAfter(pitch, yrel) == ClampPitch(F32(pitch - F32(yrel)))

DirFromAnglesNoMinus(yaw, pitch) ==
    << FMul(SinDeg(yaw), CosDeg(pitch)),
       SinDeg(pitch),
       FMul(CosDeg(yaw), CosDeg(pitch)) >>

\* camera_dir as assigned from the angles, before it is normalized.
DirFromAngles(yaw, pitch) ==
    << FMul(SinDeg(yaw), CosDeg(pitch)),
       SinDeg(pitch),
       FMul(FNeg(CosDeg(yaw)), CosDeg(pitch)) >>

\* mat1: rows camera_right, camera_up, camera_dir.
RotationMatrix(R, U, D) ==
    << << R[1], R[2], R[3], 0 >>,
       << U[1], U[2], U[3], 0 >>,
       << D[1], D[2], D[3], 0 >>,
       << 0, 0, 0, Scale >> >>

\* mat2: the shift by -camera_pos.
TranslationMatrix(P) ==
    << << Scale, 0, 0, FNeg(P[1]) >>,
       << 0, Scale, 0, FNeg(P[2]) >>,
       << 0, 0, Scale, FNeg(P[3]) >>,
       << 0, 0, 0, Scale >> >>

LookAtTransposed(R, U, D, P) ==
    mat4f_product(TranslationMatrix(P), RotationMatrix(R, U, D))

LookAt(R, U, D, P) ==
    mat4f_product(RotationMatrix(R, U, D), TranslationMatrix(P))

\* The camera as main() sets it up before the loop.
InitialCamera ==
    LET pos      == << 0, 0, 3 * Scale >>
        dir      == << 0, 0, -Scale >>
        rightRaw == vec3f_cross(dir, world_up)
        right    == vec3f_normalize(rightRaw)
        up       == vec3f_cross(right, dir)
    IN  [ yaw |-> 0, pitch |-> 0, pos |-> pos, dir |-> dir, right |-> right,
          up |-> up, look_at |-> LookAt(right, up, dir, pos),
          normalized |-> << rightRaw >> ]

\* The body of case SDL_MOUSEMOTION once the left button is known to be held.
DragUpdate(cam, xrel, yrel) ==
    LET yaw      == YawAfter(cam.yaw, xrel)
        pitch    == PitchAfter(cam.pitch, yrel)
        dirRaw   == DirFromAngles(yaw, pitch)
        dir      == vec3f_normalize(dirRaw)
        rightRaw == vec3f_cross(dir, world_up)
        right    == vec3f_normalize(rightRaw)
        up       == vec3f_cross(right, dir)
    IN  [ yaw |-> yaw, pitch |-> pitch, pos |-> cam.pos, dir |-> dir,
          right |-> right, up |-> up, look_at |-> LookAt(right, up, dir, cam.pos),
          normalized |-> << dirRaw, rightRaw >> ]

\* --------------------------------------------------------------- resources
\* A resource operation: op is "acquire", "release" or, for TTF_Quit and
\* SDL_Quit, which may be called whether or not the library is up, "quit".
Op(op, res) == [ op |-> op, res |-> res ]

\* The global handle variables, NULL or 0 until assigned.
HandleNames ==
    { "absolute_bin_dir", "absolute_font_path", "font", "main_window",
      "gl_context", "vertex_shader", "fragment_shader", "shader_program",
      "vbo", "ebo", "vao", "info_window", "renderer" }

\* The handles cleanup() passes to a gl* delete call.
GLObjects ==
    { "vertex_shader", "fragment_shader", "shader_program", "vbo", "ebo", "vao" }

\* The elements of a sequence.
Range(seq) == { seq[i] : i \in 1..Len(seq) }

RECURSIVE ApplyOps(_, _)
\* The resource state after the operations of ops, in order: live lists the
\* live resources in order of acquisition, misuse holds the invalid
\* operations (an acquire of a live resource, a release of one that is not
\* live).  TTF_Quit and SDL_Quit are valid whether or not the library is up;
\* other operations hold nothing.
ApplyOps(st, ops) ==
    IF ops = << >> THEN st
    ELSE LET o == Head(ops)
             isLive == o.res \in Range(st.live)
             without == SelectSeq(st.live, LAMBDA r : r # o.res)
             next ==
                 IF o.op = "acquire"
                 THEN [ live |-> without \o << o.res >>,
                        misuse |-> IF isLive THEN st.misuse \cup { o }
                                   ELSE st.misuse ]
                 ELSE IF o.op = "release"
                 THEN [ live |-> without,
                        misuse |-> IF isLive THEN st.misuse
                                   ELSE st.misuse \cup { o } ]
                 ELSE IF o.op = "quit"
                 THEN [ live |-> without, misuse |-> st.misuse ]
                 ELSE st
         IN  ApplyOps(next, Tail(ops))

\* The resources ops acquires.
Acquired(ops) == { ops[i].res : i \in { k \in 1..Len(ops) : ops[k].op = "acquire" } }

\* ------------------------------------------------------------- load_shader
ShaderTypes == { "GL_VERTEX_SHADER", "GL_FRAGMENT_SHADER" }

\* The objects one call of load_shader works with: the buffer of
\* get_absolute_path, the FILE, the source buffer and the shader object.
ShaderTemps(type) ==
    IF type = "GL_VERTEX_SHADER"
    THEN [ path |-> "vert.absolute_shader_path", file |-> "vert.shader_file",
           code |-> "vert.shader_code", shader |-> "vertex_shader" ]
    ELSE [ path |-> "frag.absolute_shader_path", file |-> "frag.shader_file",
           code |-> "frag.shader_code", shader |-> "fragment_shader" ]

\* How a call of load_shader on a regular file may go: which of its checks
\* fails, if any.  The call on a file ftell fails on is followed statement
\* by statement further down.
ShaderOutcomes ==
    { "path_alloc_fail", "fopen_fail", "code_alloc_fail", "compile_fail", "ok" }

\* load_shader: the handle it returns (0 is FALSE), what it acquires and
\* releases on the way, in order, and what it prints to stderr.  The buffer
\* shader_code is allocated and never passed to free.
load_shader(type, outcome) ==
    LET t == ShaderTemps(type)
    IN  IF outcome = "path_alloc_fail"
        THEN [ shader |-> FALSE, ops |-> << >>,
               err |-> << "Failed to allocate memory for absolute path" >> ]
        ELSE IF outcome = "fopen_fail"
        THEN [ shader |-> FALSE,
               ops |-> << Op("acquire", t.path), Op("release", t.path) >>,
               err |-> << "Failed to open" >> ]
        ELSE IF outcome = "code_alloc_fail"
        THEN [ shader |-> FALSE,
               ops |-> << Op("acquire", t.path), Op("acquire", t.file),
                          Op("release", t.path), Op("release", t.file) >>,
               err |-> << "Failed to allocate memory for shader code" >> ]
        ELSE IF outcome = "compile_fail"
        THEN [ shader |-> FALSE,
               ops |-> << Op("acquire", t.path), Op("acquire", t.file),
                          Op("release", t.path), Op("acquire", t.code),
                          Op("release", t.file), Op("acquire", t.shader),
                          Op("release", t.shader) >>,
               err |-> << "Failed to compile" >> ]
        ELSE [ shader |-> TRUE,
               ops |-> << Op("acquire", t.path), Op("acquire", t.file),
                          Op("release", t.path), Op("acquire", t.code),
                          Op("release", t.file), Op("acquire", t.shader) >>,
               err |-> << >> ]

\* ------------------------------------------------------------- render_text
\* How a call of render_text may go.
TextOutcomes == { "no_surface", "no_texture", "ok" }

render_text_keeps_texture(outcome) ==
    IF outcome = "ok"
    THEN [ ok |-> TRUE,
           ops |-> << Op("acquire", "text_surface"),
                      Op("acquire", "text_texture"),
                      Op("release", "text_surface") >>,
           err |-> << >> ]
    ELSE [ ok |-> FALSE, ops |-> << >>, err |-> << "Failed" >> ]

\* render_text: whether it returns true, the surface and texture it creates
\* and frees, in order, and what it prints to stderr.
render_text(outcome) ==
    IF outcome = "no_surface"
    THEN [ ok |-> FALSE, ops |-> << >>,
           err |-> << "Failed to create text surface" >> ]
    ELSE IF outcome = "no_texture"
    THEN [ ok |-> FALSE,
           ops |-> << Op("acquire", "text_surface"),
                      Op("release", "text_surface") >>,
           err |-> << "Failed to create texture from text surface" >> ]
    ELSE [ ok |-> TRUE,
           ops |-> << Op("acquire", "text_surface"),
                      Op("acquire", "text_texture"),
                      Op("release", "text_surface"),
                      Op("release", "text_texture") >>,
           err |-> << >> ]

\* The order in which one frame's render_text calls are told apart: the
\* frame makes twelve calls, and the model keeps one call of each outcome
\* that occurred among them.
TextOutcomeOrder == << "ok", "no_surface", "no_texture" >>

RECURSIVE TextCalls(_, _)
\* The render_text calls of one frame whose outcomes are kinds, folded into
\* one record of operations and diagnostics.
TextCalls(kinds, i) ==
    IF i > Len(TextOutcomeOrder) THEN [ ops |-> << >>, err |-> << >> ]
    ELSE LET rest == TextCalls(kinds, i + 1)
         IN  IF TextOutcomeOrder[i] \in kinds
             THEN LET r == render_text(TextOutcomeOrder[i])
                  IN  [ ops |-> r.ops \o rest.ops, err |-> r.err \o rest.err ]
             ELSE rest

\* ------------------------------------------------------------------ startup
\* The checked steps of main before the loop, in program order.
InitSteps ==
    << "SDL_Init", "TTF_Init", "SDL_GetBasePath", "get_absolute_path",
       "TTF_OpenFont", "SDL_CreateWindow_main", "SDL_GL_CreateContext",
       "gladLoadGLLoader", "load_vertex_shader", "load_fragment_shader",
       "glLinkProgram", "SDL_CreateWindow_info", "SDL_CreateRenderer" >>

AllInitSteps == { InitSteps[i] : i \in 1..Len(InitSteps) }

ShaderSteps == { "load_vertex_shader", "load_fragment_shader" }

\* The outcomes a step may have.
StepOutcomes(step) ==
    IF step \in ShaderSteps THEN ShaderOutcomes ELSE { "ok", "fail" }

InitCheckSkipsGlad(step, outcome) ==
    outcome = "ok" \/ step = "gladLoadGLLoader"

\* The test main makes after a step: TRUE lets the program go on, FALSE
\* makes it return EXIT_FAILURE.
InitCheckPasses(step, outcome) == outcome = "ok"

\* The step after step; "loop" after the last.
StepAfter(step) ==
    LET i == CHOOSE k \in 1..Len(InitSteps) : InitSteps[k] = step
    IN  IF i = Len(InitSteps) THEN "loop" ELSE InitSteps[i + 1]

ZeroedAfterLinkVertexOnly == { "vertex_shader" }

\* The handle variables main sets to 0 after glDeleteShader.
ZeroedAfterLink == { "fragment_shader", "vertex_shader" }

FailureCodeSuccess == "EXIT_SUCCESS"

\* What main returns when a step's check fails.
FailureCode == "EXIT_FAILURE"

\* One step of startup: the operations it performs, in order, what it
\* prints, the handle variables it assigns and those it zeroes.
StepEffect(step, outcome) ==
    LET simple(res, handle, msg) ==
            IF outcome = "ok"
            THEN [ ops |-> << Op("acquire", res) >>, err |-> << >>,
                   set |-> handle, zero |-> {} ]
            ELSE [ ops |-> << >>, err |-> << msg >>,
                   set |-> {}, zero |-> {} ]
        shader(type, handle) ==
            LET r == load_shader(type, outcome)
            IN  [ ops |-> r.ops, err |-> r.err,
                  set |-> IF r.shader THEN { handle } ELSE {}, zero |-> {} ]
    IN  CASE step = "SDL_Init" ->
               simple("SDL", {}, "Failed to initialize SDL")
          [] step = "TTF_Init" ->
               simple("SDL_ttf", {}, "Failed to initialize SDL_ttf")
          [] step = "SDL_GetBasePath" ->
               simple("absolute_bin_dir", { "absolute_bin_dir" },
                      "Failed to get absolute bin dir")
          [] step = "get_absolute_path" ->
               simple("absolute_font_path", { "absolute_font_path" },
                      "Failed to allocate memory for absolute path")
          [] step = "TTF_OpenFont" ->
               simple("font", { "font" }, "Failed to open font")
          [] step = "SDL_CreateWindow_main" ->
               simple("main_window", { "main_window" },
                      "Failed to create main window")
          [] step = "SDL_GL_CreateContext" ->
               simple("gl_context", { "gl_context" },
                      "Failed to create OpenGL context")
          [] step = "gladLoadGLLoader" ->
               [ ops |-> << >>,
                 err |-> IF outcome = "ok" THEN << >>
                         ELSE << "Failed to initialize glad" >>,
                 set |-> {}, zero |-> {} ]
          [] step = "load_vertex_shader" ->
               shader("GL_VERTEX_SHADER", "vertex_shader")
          [] step = "load_fragment_shader" ->
               shader("GL_FRAGMENT_SHADER", "fragment_shader")
          [] step = "glLinkProgram" ->
               [ ops |-> << Op("acquire", "shader_program"),
                            Op("release", "fragment_shader"),
                            Op("release", "vertex_shader") >>,
                 err |-> IF outcome = "ok" THEN << >>
                         ELSE << "Failed to link shader program" >>,
                 set |-> { "shader_program" }, zero |-> ZeroedAfterLink ]
          [] step = "SDL_CreateWindow_info" ->
               [ ops |-> << Op("acquire", "vbo"), Op("acquire", "ebo"),
                            Op("acquire", "vao") >>
                         \o IF outcome = "ok"
                            THEN << Op("acquire", "info_window") >>
                            ELSE << >>,
                 err |-> IF outcome = "ok" THEN << >>
                         ELSE << "Failed to create info window" >>,
                 set |-> { "vbo", "ebo", "vao" }
                         \cup IF outcome = "ok" THEN { "info_window" } ELSE {},
                 zero |-> {} ]
          [] step = "SDL_CreateRenderer" ->
               simple("renderer", { "renderer" }, "Failed to create renderer")

\* The resource state of the program before SDL_Init: the handle variables,
\* the live resources, those startup created, the misuses, the steps passed.
NoResources ==
    [ handles |-> {}, live |-> << >>, created |-> {}, misuse |-> {},
      init_ok |-> {} ]

\* The resource state after a step of startup.
AfterStep(st, step, outcome) ==
    LET e == StepEffect(step, outcome)
        a == ApplyOps([ live |-> st.live, misuse |-> st.misuse ], e.ops)
    IN  [ handles |-> (st.handles \cup e.set) \ e.zero,
          live |-> a.live,
          created |-> st.created \cup Acquired(e.ops),
          misuse |-> a.misuse,
          init_ok |-> IF outcome = "ok" THEN st.init_ok \cup { step }
                      ELSE st.init_ok ]

RECURSIVE AfterSteps(_, _)
\* The resource state after the steps of startup from the i-th on have
\* succeeded.
AfterSteps(st, i) ==
    IF i > Len(InitSteps) THEN st
    ELSE LET next == AfterStep(st, InitSteps[i], "ok")
         IN  AfterSteps(next, i + 1)

\* The resource state on entry to the loop.
Started == AfterSteps(NoResources, 1)

\* ------------------------------------------------------------------ cleanup
CleanupOrderWindowFirst ==
    << "info_window", "renderer", "vao", "ebo", "vbo", "shader_program",
       "fragment_shader", "vertex_shader", "gl_context", "main_window",
       "font", "absolute_font_path", "absolute_bin_dir" >>

\* The handle variables in the order cleanup() tests and releases them.
CleanupOrder ==
    << "renderer", "info_window", "vao", "ebo", "vbo", "shader_program",
       "fragment_shader", "vertex_shader", "gl_context", "main_window",
       "font", "absolute_font_path", "absolute_bin_dir" >>

RECURSIVE CleanupReleases(_, _)
\* The releases cleanup() makes for the handles from position i on: one for
\* each handle variable that is not NULL or 0.
CleanupReleases(h, i) ==
    IF i > Len(CleanupOrder) THEN << >>
    ELSE (IF CleanupOrder[i] \in h
          THEN << Op("release", CleanupOrder[i]) >> ELSE << >>)
         \o CleanupReleases(h, i + 1)

\* cleanup(): the guarded releases, then TTF_Quit and SDL_Quit.
cleanup(h) ==
    CleanupReleases(h, 1) \o << Op("quit", "SDL_ttf"), Op("quit", "SDL") >>

\* -------------------------------------------------------------- the program
\* The four versions of main() in the repository.
Versions == { "main_c", "src_main_c", "part_000", "part_001" }

VARIABLES
    version,          \* which main() runs
    pc,               \* the step of startup about to run; "loop": inside
                      \* while (!quit); "exited": past it; "atexit": main
                      \* has returned; "done": cleanup() has run
    quit,
    is_lmb_pressed,
    event,            \* SDL_Event event, as SDL_PollEvent last filled it
    yaw_deg,
    pitch_deg,
    camera_pos,
    camera_dir,
    camera_right,
    camera_up,
    look_at_matrix,
    normalized,       \* the arguments of the vec3f_normalize calls of the last
                      \* camera computation, in call order
    drags,            \* drag updates made so far
    handles,          \* the global handle variables that are not NULL or 0
    live,             \* the live resources, in order of acquisition
    created,          \* the resources startup has created so far
    misuse,           \* the invalid resource operations made so far
    init_ok,          \* the steps of startup that succeeded
    entered_loop,     \* while (!quit) has been reached
    exit_code,        \* what main returned; "none" before it returns
    cleanup_runs,     \* calls of cleanup() so far
    ops,              \* the resource operations of the last step, in order
    stderr,           \* what the last step printed to stderr
    calc,             \* the last call made by the vector and matrix drill
    shader_call       \* the locals of a call of load_shader run on its own

camera == << yaw_deg, pitch_deg, camera_pos, camera_dir, camera_right,
             camera_up, look_at_matrix, normalized, drags >>

resources == << handles, live, created, misuse, init_ok >>

run == << entered_loop, exit_code, cleanup_runs >>

vars == << version, pc, quit, is_lmb_pressed, event, yaw_deg, pitch_deg,
           camera_pos, camera_dir, camera_right, camera_up, look_at_matrix,
           normalized, drags, handles, live, created, misuse, init_ok,
           entered_loop, exit_code, cleanup_runs, ops, stderr, calc,
           shader_call >>

\* The fields of SDL_Event the loop reads; a field an event type does not
\* carry is "none" or 0.
Ev(type, sym, button, xrel, yrel) ==
    [ type |-> type, sym |-> sym, button |-> button, xrel |-> xrel, yrel |-> yrel ]

\* event before the first SDL_PollEvent of an iteration has filled it.
NoEvent == Ev("none", "none", "none", 0, 0)

Keys == { "SDLK_ESCAPE", "SDLK_a" }

Buttons == { "SDL_BUTTON_LEFT", "SDL_BUTTON_RIGHT" }

\* Event types no version of the switch has a case for.
OtherTypes == { "SDL_KEYUP", "SDL_WINDOWEVENT" }

\* The key an event of such a type carries.
KeyOf(type) == IF type = "SDL_KEYUP" THEN "SDLK_ESCAPE" ELSE "none"

\* The switch of this version has a case SDL_QUIT.
HasQuitCase(v) == v \in { "src_main_c", "part_000", "part_001" }

\* The switch of this version has the three mouse cases and the camera.
HasCamera(v) == v = "part_000"

KeyQuitsAny(sym) == TRUE

\* The inner switch of case SDL_KEYDOWN.
KeyQuits(sym) == sym = "SDLK_ESCAPE"

\* The inner switch of case SDL_MOUSEBUTTONDOWN and of case SDL_MOUSEBUTTONUP.
ButtonIsLeft(button) == button = "SDL_BUTTON_LEFT"

MotionIgnoredNever(held) == FALSE

\* if (!is_lmb_pressed) break;
MotionIgnored(held) == ~held

\* The switch of this version is followed by the render_text calls.
HasRenderText(v) == v = "part_000"

LoopContinuesAlways(q) == TRUE

\* while (!quit)
LoopContinues(q) == ~q

\* shader_call while no call of load_shader is run on its own.
NoShaderCall == [ pc |-> "none" ]

\* calc before the drill has made a call.
NoCalc == [ op |-> "none", a |-> << >>, b |-> << >>, out |-> << >> ]

\* The state in which main is about to run p with the resources st.  The
\* camera locals and quit hold, before their declarations are reached, the
\* values the declarations give them.
InitAt(v, p, st) ==
    /\ version = v
    /\ pc = p
    /\ quit = FALSE
    /\ is_lmb_pressed = FALSE
    /\ event = NoEvent
    /\ yaw_deg = InitialCamera.yaw
    /\ pitch_deg = InitialCamera.pitch
    /\ camera_pos = InitialCamera.pos
    /\ camera_dir = InitialCamera.dir
    /\ camera_right = InitialCamera.right
    /\ camera_up = InitialCamera.up
    /\ look_at_matrix = InitialCamera.look_at
    /\ normalized = InitialCamera.normalized
    /\ drags = 0
    /\ handles = st.handles
    /\ live = st.live
    /\ created = st.created
    /\ misuse = st.misuse
    /\ init_ok = st.init_ok
    /\ entered_loop = (p = "loop")
    /\ exit_code = "none"
    /\ cleanup_runs = 0
    /\ ops = << >>
    /\ stderr = << >>

\* On entry to the loop, every step of startup having succeeded.
InitWith(v) ==
    /\ InitAt(v, "loop", Started)
    /\ calc = NoCalc
    /\ shader_call = NoShaderCall

Init == InitWith("part_000")

\* The versions differ in the switch; the resources are those of part_000.
InitVersions == \E v \in Versions : InitWith(v)

\* At the start of main, after atexit(cleanup).
InitLife ==
    /\ InitAt("part_000", InitSteps[1], NoResources)
    /\ calc = NoCalc
    /\ shader_call = NoShaderCall

\* An event handler touches no resource and prints nothing.
NoResourceUse ==
    /\ ops' = << >>
    /\ stderr' = << >>
    /\ UNCHANGED << resources, run, calc, shader_call >>

\* One checked step of startup, and on success the unchecked code up to the
\* next one; on failure main returns and the handlers of atexit are due.
InitStep(outcome) ==
    /\ pc \in AllInitSteps
    /\ outcome \in StepOutcomes(pc)
    /\ \E st \in { AfterStep([ handles |-> handles, live |-> live,
                               created |-> created, misuse |-> misuse,
                               init_ok |-> init_ok ], pc, outcome) } :
           /\ handles' = st.handles
           /\ live' = st.live
           /\ created' = st.created
           /\ misuse' = st.misuse
           /\ init_ok' = st.init_ok
    /\ ops' = StepEffect(pc, outcome).ops
    /\ stderr' = StepEffect(pc, outcome).err
    /\ IF InitCheckPasses(pc, outcome)
       THEN /\ pc' = StepAfter(pc)
            /\ entered_loop' = (StepAfter(pc) = "loop")
            /\ exit_code' = exit_code
       ELSE /\ pc' = "atexit"
            /\ entered_loop' = entered_loop
            /\ exit_code' = FailureCode
    /\ UNCHANGED << version, quit, is_lmb_pressed, event, camera,
                    cleanup_runs, calc, shader_call >>

\* case SDL_QUIT
OnQuit ==
    /\ pc = "loop"
    /\ event' = Ev("SDL_QUIT", "none", "none", 0, 0)
    /\ quit' = IF HasQuitCase(version) THEN TRUE ELSE quit
    /\ NoResourceUse
    /\ UNCHANGED << version, pc, is_lmb_pressed, camera >>

\* case SDL_KEYDOWN
OnKeyDown(sym) ==
    /\ pc = "loop"
    /\ event' = Ev("SDL_KEYDOWN", sym, "none", 0, 0)
    /\ quit' = IF KeyQuits(sym) THEN TRUE ELSE quit
    /\ NoResourceUse
    /\ UNCHANGED << version, pc, is_lmb_pressed, camera >>

\* case SDL_MOUSEBUTTONDOWN
OnMouseButtonDown(button) ==
    /\ pc = "loop"
    /\ event' = Ev("SDL_MOUSEBUTTONDOWN", "none", button, 0, 0)
    /\ is_lmb_pressed' =
           IF HasCamera(version) /\ ButtonIsLeft(button) THEN TRUE
           ELSE is_lmb_pressed
    /\ NoResourceUse
    /\ UNCHANGED << version, pc, quit, camera >>

\* case SDL_MOUSEBUTTONUP
OnMouseButtonUp(button) ==
    /\ pc = "loop"
    /\ event' = Ev("SDL_MOUSEBUTTONUP", "none", button, 0, 0)
    /\ is_lmb_pressed' =
           IF HasCamera(version) /\ ButtonIsLeft(button) THEN FALSE
           ELSE is_lmb_pressed
    /\ NoResourceUse
    /\ UNCHANGED << version, pc, quit, camera >>

\* case SDL_MOUSEMOTION
OnMouseMotion(xrel, yrel) ==
    /\ pc = "loop"
    /\ event' = Ev("SDL_MOUSEMOTION", "none", "none", xrel, yrel)
    /\ IF ~HasCamera(version) \/ MotionIgnored(is_lmb_pressed)
       THEN UNCHANGED camera
       ELSE /\ drags < MaxDrags
            /\ \E cam \in { DragUpdate(
                              [ yaw |-> yaw_deg, pitch |-> pitch_deg,
                                pos |-> camera_pos, dir |-> camera_dir,
                                right |-> camera_right, up |-> camera_up,
                                look_at |-> look_at_matrix,
                                normalized |-> normalized ], xrel, yrel) } :
                   /\ yaw_deg' = cam.yaw
                   /\ pitch_deg' = cam.pitch
                   /\ camera_pos' = cam.pos
                   /\ camera_dir' = cam.dir
                   /\ camera_right' = cam.right
                   /\ camera_up' = cam.up
                   /\ look_at_matrix' = cam.look_at
                   /\ normalized' = cam.normalized
            /\ drags' = drags + 1
    /\ NoResourceUse
    /\ UNCHANGED << version, pc, quit, is_lmb_pressed >>

\* An event of a type the switch has no case for.
OnOtherEvent(type) ==
    /\ pc = "loop"
    /\ event' = Ev(type, KeyOf(type), "none", 0, 0)
    /\ NoResourceUse
    /\ UNCHANGED << version, pc, quit, is_lmb_pressed, camera >>

\* What drawing one frame does to resources and prints: the swap of the
\* main window, the render_text calls, whose results main does not read, and
\* the present of the renderer.
FrameEffect(v, kinds) ==
    LET text == IF HasRenderText(v) THEN TextCalls(kinds, 1)
                ELSE [ ops |-> << >>, err |-> << >> ]
    IN  [ ops |-> << Op("swap", "main_window") >> \o text.ops
                  \o << Op("present", "renderer") >>,
          err |-> text.err ]

\* The outcomes that may occur among the render_text calls of one frame.
FrameKinds(v) ==
    IF HasRenderText(v) THEN SUBSET TextOutcomes \ { {} } ELSE { {} }

\* SDL_PollEvent returns 0: the frame is drawn with look_at_matrix as the
\* "view" uniform and presented, the iteration ends (event goes out of scope)
\* and while (!quit) is tested.
DrawFrame ==
    /\ pc = "loop"
    /\ event' = NoEvent
    /\ \E kinds \in FrameKinds(version) :
           /\ ops' = FrameEffect(version, kinds).ops
           /\ stderr' = FrameEffect(version, kinds).err
           /\ \E st \in { ApplyOps([ live |-> live, misuse |-> misuse ],
                                   FrameEffect(version, kinds).ops) } :
                  /\ live' = st.live
                  /\ misuse' = st.misuse
    /\ pc' = IF LoopContinues(quit) THEN "loop" ELSE "exited"
    /\ UNCHANGED << version, quit, is_lmb_pressed, camera, handles, created,
                    init_ok, run, calc, shader_call >>

\* return EXIT_SUCCESS;
ReturnSuccess ==
    /\ pc = "exited"
    /\ pc' = "atexit"
    /\ exit_code' = "EXIT_SUCCESS"
    /\ ops' = << >>
    /\ stderr' = << >>
    /\ UNCHANGED << version, quit, is_lmb_pressed, event, camera, resources,
                    entered_loop, cleanup_runs, calc, shader_call >>

\* The C runtime calls cleanup(), registered with atexit, once main has
\* returned; the handle variables keep their values.
Cleanup ==
    /\ pc = "atexit"
    /\ pc' = "done"
    /\ cleanup_runs' = cleanup_runs + 1
    /\ ops' = cleanup(handles)
    /\ stderr' = << >>
    /\ \E st \in { ApplyOps([ live |-> live, misuse |-> misuse ],
                            cleanup(handles)) } :
           /\ live' = st.live
           /\ misuse' = st.misuse
    /\ UNCHANGED << version, quit, is_lmb_pressed, event, camera, handles,
                    created, init_ok, entered_loop, exit_code, calc,
                    shader_call >>

Next ==
    \/ OnQuit
    \/ \E sym \in Keys : OnKeyDown(sym)
    \/ \E button \in Buttons : OnMouseButtonDown(button)
    \/ \E button \in Buttons : OnMouseButtonUp(button)
    \/ \E xrel \in XRels, yrel \in YRels : OnMouseMotion(xrel, yrel)
    \/ \E type \in OtherTypes : OnOtherEvent(type)
    \/ DrawFrame
    \/ ReturnSuccess
    \/ Cleanup

\* The whole run, from the start of main.
NextLife ==
    \/ \E outcome \in ShaderOutcomes \cup { "fail" } : InitStep(outcome)
    \/ Next

Spec == Init /\ [][Next]_vars

SpecVersions == InitVersions /\ [][Next]_vars

SpecLife == InitLife /\ [][NextLife]_vars

\* ---------------------------------------------------------------- the drill
\* vec3f_cross and mat4f_product called on their own, on arguments with
\* integer values.
Components == { k * Scale : k \in -MathMax..MathMax }

Vectors == { << x, y, z >> : x \in Components, y \in Components, z \in Components }

Seeds == [ 1..4 -> 0..MatMax ]

\* The matrix with the entry 3 * u[i] - w[j] in row i, column j.
SeededMatrix(u, w) ==
    [ i \in 1..4 |-> [ j \in 1..4 |-> (3 * u[i] - w[j]) * Scale ] ]

Matrices == { SeededMatrix(u, w) : u \in Seeds, w \in Seeds }

\* The identity matrix: 1.0f on the diagonal, 0.0f elsewhere.
Identity ==
    << << Scale, 0, 0, 0 >>,
       << 0, Scale, 0, 0 >>,
       << 0, 0, Scale, 0 >>,
       << 0, 0, 0, Scale >> >>

\* The arguments are chosen, the call is still to be made.
InitMath ==
    /\ InitAt("part_000", InitSteps[1], NoResources)
    /\ shader_call = NoShaderCall
    /\ \/ \E a \in Vectors, b \in Vectors :
              calc = [ op |-> "cross_args", a |-> a, b |-> b, out |-> << >> ]
       \/ \E m \in Matrices :
              calc = [ op |-> "product_args", a |-> m, b |-> m, out |-> << >> ]

\* vec3f_cross(&a, &b)
CallCross ==
    /\ calc.op = "cross_args"
    /\ calc' = [ calc EXCEPT !.op = "vec3f_cross",
                             !.out = vec3f_cross(calc.a, calc.b) ]
    /\ UNCHANGED << version, pc, quit, is_lmb_pressed, event, camera,
                    resources, run, ops, stderr, shader_call >>

\* mat4f_product(&identity, &m)
CallProductLeft ==
    /\ calc.op = "product_args"
    /\ calc' = [ calc EXCEPT !.op = "mat4f_product", !.a = Identity,
                             !.out = mat4f_product(Identity, calc.b) ]
    /\ UNCHANGED << version, pc, quit, is_lmb_pressed, event, camera,
                    resources, run, ops, stderr, shader_call >>

\* mat4f_product(&m, &identity)
CallProductRight ==
    /\ calc.op = "product_args"
    /\ calc' = [ calc EXCEPT !.op = "mat4f_product", !.b = Identity,
                             !.out = mat4f_product(calc.a, Identity) ]
    /\ UNCHANGED << version, pc, quit, is_lmb_pressed, event, camera,
                    resources, run, ops, stderr, shader_call >>

NextMath ==
    \/ CallCross
    \/ CallProductLeft
    \/ CallProductRight

SpecMath == InitMath /\ [][NextMath]_vars

\* ------------------------------------------------- load_shader, step by step
\* One call of load_shader on its own, a statement group at a time.  The
\* buffer shader_code is kept as its size and the offsets accessed in it.

\* The largest size_t (of a build with 32-bit size_t; with 64 bits it is
\* larger still, and as far beyond the size of any file).
SizeMax == 2147483647

\* The conversion of a long to the size_t parameter of malloc and fread.
ToSizeT(n) == IF n >= 0 THEN n ELSE SizeMax + (n + 1)

Min(a, b) == IF a <= b THEN a ELSE b

\* The sizes a shader file may have.
FileSizes == 0..MaxFile

\* What ftell may return: the size of the file, or -1 when it fails (as on
\* a FIFO).
TellResults == { -1 } \cup FileSizes

\* An offset of shader_code outside the allocated bytes has been accessed.
OutOfBounds(c) ==
    /\ "shader_code_size" \in DOMAIN c
    /\ \E i \in c.written \cup c.scanned : i < 0 \/ i >= c.shader_code_size

InitShader ==
    /\ InitAt("part_000", InitSteps[1], NoResources)
    /\ calc = NoCalc
    /\ \E type \in ShaderTypes :
           shader_call = [ pc |-> "get_absolute_path", type |-> type ]

\* The variables load_shader does not touch.
OutsideShaderCall ==
    UNCHANGED << version, pc, quit, is_lmb_pressed, event, camera, resources,
                 run, ops, stderr, calc >>

\* load_shader returns this value: 0, or the name of the shader object.
ShaderReturns(c, value) ==
    [ pc |-> "returned", type |-> c.type, result |-> value ]

\* get_absolute_path and its check.
ShaderGetPath(ok) ==
    /\ shader_call.pc = "get_absolute_path"
    /\ shader_call' = IF ok THEN [ shader_call EXCEPT !.pc = "fopen" ]
                      ELSE ShaderReturns(shader_call, 0)
    /\ OutsideShaderCall

\* fopen, free(absolute_shader_path) and the check of shader_file.
ShaderOpen(ok) ==
    /\ shader_call.pc = "fopen"
    /\ shader_call' = IF ok THEN [ shader_call EXCEPT !.pc = "ftell" ]
                      ELSE ShaderReturns(shader_call, 0)
    /\ OutsideShaderCall

\* fseek(shader_file, 0, SEEK_END) and ftell; neither result is checked.
ShaderTell(tell) ==
    /\ shader_call.pc = "ftell"
    /\ shader_call' = [ pc |-> "malloc", type |-> shader_call.type,
                        shader_code_length |-> tell ]
    /\ OutsideShaderCall

\* malloc(shader_code_length + 1) and its check; malloc(0) may return NULL
\* or a pointer to no bytes.
ShaderAlloc(ok) ==
    /\ shader_call.pc = "malloc"
    /\ shader_call' =
           IF ok
           THEN [ pc |-> "fread", type |-> shader_call.type,
                  shader_code_length |-> shader_call.shader_code_length,
                  shader_code_size |->
                      ToSizeT(shader_call.shader_code_length + 1),
                  fread_size |-> 0, written |-> {}, scanned |-> {} ]
           ELSE ShaderReturns(shader_call, 0)
    /\ OutsideShaderCall

\* fseek(shader_file, 0, SEEK_SET) and fread(shader_code,
\* shader_code_length, 1, shader_file): of the avail bytes the file then
\* has, fread stores got, at most the size asked for; its result is not
\* checked.
ShaderRead(avail, got) ==
    /\ shader_call.pc = "fread"
    /\ got <= Min(ToSizeT(shader_call.shader_code_length), avail)
    /\ shader_call' =
           [ shader_call EXCEPT
               !.pc = "nul",
               !.fread_size = ToSizeT(shader_call.shader_code_length),
               !.written = { i \in FileSizes : i < got } ]
    /\ OutsideShaderCall

\* shader_code[shader_code_length] = '\0';
ShaderTerminate ==
    /\ shader_call.pc = "nul"
    /\ shader_call' =
           [ shader_call EXCEPT
               !.pc = "compile",
               !.written = @ \cup { shader_call.shader_code_length } ]
    /\ OutsideShaderCall

\* fclose, glCreateShader, glShaderSource, which reads shader_code from
\* offset 0 up to the first NUL, at offset last (no later than the NUL
\* written at shader_code_length, when that lies ahead), glCompileShader and
\* the check of the compile status.
ShaderCompile(last, success) ==
    /\ shader_call.pc = "compile"
    /\ shader_call.shader_code_length >= 0
           => last <= shader_call.shader_code_length
    /\ shader_call' =
           [ pc |-> "returned", type |-> shader_call.type,
             shader_code_length |-> shader_call.shader_code_length,
             shader_code_size |-> shader_call.shader_code_size,
             fread_size |-> shader_call.fread_size,
             written |-> shader_call.written,
             scanned |-> { i \in FileSizes : i <= last },
             result |-> IF success THEN 1 ELSE 0 ]
    /\ OutsideShaderCall

\* Once an offset outside the buffer has been accessed the behaviour is
\* undefined: the call may go on as above, or the process may be killed.
ShaderCrash ==
    /\ shader_call.pc \in { "nul", "compile" }
    /\ OutOfBounds(shader_call)
    /\ shader_call' = [ shader_call EXCEPT !.pc = "crashed" ]
    /\ OutsideShaderCall

NextShader ==
    \/ \E ok \in BOOLEAN : ShaderGetPath(ok)
    \/ \E ok \in BOOLEAN : ShaderOpen(ok)
    \/ \E tell \in TellResults : ShaderTell(tell)
    \/ \E ok \in BOOLEAN : ShaderAlloc(ok)
    \/ \E avail \in FileSizes, got \in FileSizes : ShaderRead(avail, got)
    \/ ShaderTerminate
    \/ \E last \in FileSizes, success \in BOOLEAN : ShaderCompile(last, success)
    \/ ShaderCrash

SpecShader == InitShader /\ [][NextShader]_vars

\* ------------------------------------------------------------------ claims
IsMotion(e) == e.type = "SDL_MOUSEMOTION"

IsLeftDown(e) == e.type = "SDL_MOUSEBUTTONDOWN" /\ e.button = "SDL_BUTTON_LEFT"

IsLeftUp(e) == e.type = "SDL_MOUSEBUTTONUP" /\ e.button = "SDL_BUTTON_LEFT"

IsQuitSignal(e) ==
    \/ e.type = "SDL_QUIT"
    \/ e.type = "SDL_KEYDOWN" /\ e.sym = "SDLK_ESCAPE"

Dot(a, b) == a[1] * b[1] + a[2] * b[2] + a[3] * b[3]

\* 0.001 as a bound on a product of two components.
DotTolerance == (Scale * Scale) \div 1000

ZeroVec == << 0, 0, 0 >>

\* C1: in every reachable state, whatever mouse events came before,
\* -89 <= pitch_deg <= 89.
C1_PitchWithinLimits == -89 <= pitch_deg /\ pitch_deg <= 89

\* Two drags of yrel = -100: the second one starts at the upper limit.
C1_Witness == drags = 2 /\ pitch_deg = 89 /\ IsMotion(event) /\ event.yrel = -100

\* C2: the left button counts as held exactly from a left-button-down to the
\* next left-button-up (no other event changes that), and a motion event
\* processed while it is not held leaves yaw_deg, pitch_deg, camera_dir,
\* camera_right, camera_up and look_at_matrix unchanged.
C2_MotionIgnoredWhenNotHeld ==
    /\ ~is_lmb_pressed
    /\ [][ is_lmb_pressed' = IF IsLeftDown(event') THEN TRUE
                             ELSE IF IsLeftUp(event') THEN FALSE
                             ELSE is_lmb_pressed ]_vars
    /\ [][ (IsMotion(event') /\ ~is_lmb_pressed)
           => UNCHANGED << yaw_deg, pitch_deg, camera_dir, camera_right,
                           camera_up, look_at_matrix >> ]_vars

\* After a drag and a left-button-up, a motion of xrel = 47 has been ignored.
C2_Witness ==
    /\ IsMotion(event) /\ event.xrel = 47
    /\ ~is_lmb_pressed
    /\ drags = 1 /\ yaw_deg = 1

\* C3 as claimed: a motion event processed while the left button is held
\* sets yaw' = yaw + xrel and pitch' = clamp(pitch - yrel, -89, 89).
C3_Claimed ==
    [][ (IsMotion(event') /\ is_lmb_pressed)
        => /\ yaw_deg' = yaw_deg + event'.xrel
           /\ pitch_deg' =
                  LET p == pitch_deg - event'.yrel
                  IN  IF p < -89 THEN -89 ELSE IF p > 89 THEN 89 ELSE p ]_vars

\* C3 as amended: a motion event processed while the left button is held
\* sets yaw' to the float sum of yaw and xrel, which is yaw + xrel itself
\* while yaw, xrel and the sum are within 2^24 in magnitude and is off by at
\* most the relative error 2^-24 beyond that, for |xrel| <= 2^24 (yaw is
\* neither clamped nor wrapped); sets pitch' = clamp(pitch - yrel, -89, 89),
\* the clamp applied after the subtraction; and recomputes camera_dir,
\* camera_right, camera_up and look_at_matrix from the new angles.
C3_DragUpdate ==
    [][ (IsMotion(event') /\ is_lmb_pressed)
        => LET sum == yaw_deg + event'.xrel
               p   == pitch_deg - event'.yrel
           IN  /\ ( /\ Abs(yaw_deg) <= 16777216
                    /\ Abs(event'.xrel) <= 16777216
                    /\ Abs(sum) <= 16777216 ) => yaw_deg' = sum
               /\ Abs(event'.xrel) <= 16777216
                      => Abs(yaw_deg' - sum) * 16777216 <= Abs(sum)
               /\ pitch_deg' = IF p < -89 THEN -89 ELSE IF p > 89 THEN 89 ELSE p
               /\ camera_dir' = vec3f_normalize(DirFromAngles(yaw_deg', pitch_deg'))
               /\ camera_right' = vec3f_normalize(vec3f_cross(camera_dir', world_up))
               /\ camera_up' = vec3f_cross(camera_right', camera_dir')
               /\ look_at_matrix' =
                      LookAt(camera_right', camera_up', camera_dir', camera_pos) ]_vars

\* A drag of xrel = 1 processed at yaw_deg = 2^24, which it leaves there.
C3_Witness ==
    /\ IsMotion(event) /\ event.xrel = 1
    /\ is_lmb_pressed
    /\ drags = 2 /\ yaw_deg = 16777216

\* C4 as claimed: camera_right, camera_up and camera_dir are mutually
\* orthogonal, each pairwise dot product being 0.
C4_Claimed ==
    /\ Dot(camera_right, camera_dir) = 0
    /\ Dot(camera_up, camera_dir) = 0
    /\ Dot(camera_up, camera_right) = 0

\* C4 as amended: after initialization and after every drag update,
\* camera_right, camera_up and camera_dir are mutually orthogonal up to
\* rounding: each pairwise dot product is at most 0.001 in magnitude.
C4_OrthogonalUpToRounding ==
    /\ Abs(Dot(camera_right, camera_dir)) <= DotTolerance
    /\ Abs(Dot(camera_up, camera_dir)) <= DotTolerance
    /\ Abs(Dot(camera_up, camera_right)) <= DotTolerance

\* A drag has turned the camera in both angles, up to the pitch limit.
C4_Witness == drags = 2 /\ yaw_deg = 48 /\ pitch_deg = -89

\* C5: every vector passed to vec3f_normalize (one call at initialization,
\* two in each drag update) has non-zero length, and camera_dir is never
\* the zero vector nor parallel to world_up.
C5_NormalizeInputNonZero ==
    /\ \A i \in 1..Len(normalized) :
           /\ \A k \in 1..3 : ~IsNaN(normalized[i][k])
           /\ normalized[i] # ZeroVec
    /\ camera_dir # ZeroVec
    /\ vec3f_cross(camera_dir, world_up) # ZeroVec

\* A drag update at the pitch limit has made its two vec3f_normalize calls.
C5_Witness == drags >= 1 /\ pitch_deg = 89 /\ Len(normalized) = 2

\* C6: in every state, so whenever a frame is drawn, look_at_matrix is
\* mat4f_product(rotation, translation) for the current camera_right,
\* camera_up, camera_dir and camera_pos, and camera_pos is (0, 0, 3).
C6_LookAtIsRotationTimesTranslation ==
    /\ camera_pos = << 0, 0, 3 * Scale >>
    /\ look_at_matrix =
           mat4f_product(RotationMatrix(camera_right, camera_up, camera_dir),
                         TranslationMatrix(camera_pos))

\* A frame is about to be drawn after drags that turned the camera.
C6_Witness ==
    /\ drags = 2 /\ yaw_deg = 48 /\ pitch_deg = -1
    /\ look_at_matrix # InitialCamera.look_at

\* C7: before any drag update the camera is as initialized: camera_dir =
\* (0,0,-1), camera_right = (1,0,0), camera_up = (0,1,0), yaw_deg =
\* pitch_deg = 0, camera_pos = (0,0,3), and look_at_matrix is the product of
\* the rotation and the translation for these.
C7_InitialCamera ==
    drags = 0 =>
        /\ world_up = << 0, Scale, 0 >>
        /\ camera_dir = << 0, 0, -Scale >>
        /\ camera_right = << Scale, 0, 0 >>
        /\ camera_up = << 0, Scale, 0 >>
        /\ yaw_deg = 0 /\ pitch_deg = 0
        /\ camera_pos = << 0, 0, 3 * Scale >>
        /\ look_at_matrix = << << Scale, 0, 0, 0 >>,
                               << 0, Scale, 0, 0 >>,
                               << 0, 0, -Scale, 3 * Scale >>,
                               << 0, 0, 0, Scale >> >>

\* The loop is running on the camera as initialized: the first event polled.
C7_Witness == drags = 0 /\ pc = "loop" /\ event.type = "SDL_MOUSEBUTTONDOWN"

\* C8: a drag update with xrel = 0 and yrel = 0 made at yaw = 0, pitch = 0
\* leaves camera_dir equal to (0, 0, -1).
C8_NullDragKeepsDirection ==
    [][ ( /\ IsMotion(event') /\ event'.xrel = 0 /\ event'.yrel = 0
          /\ is_lmb_pressed
          /\ yaw_deg = 0 /\ pitch_deg = 0 )
        => camera_dir' = << 0, 0, -Scale >> ]_vars

\* The first drag update of a run, with xrel = yrel = 0, has been made.
C8_Witness ==
    /\ IsMotion(event) /\ event.xrel = 0 /\ event.yrel = 0
    /\ is_lmb_pressed /\ drags = 1
    /\ camera_dir = << 0, 0, -Scale >>

\* C9: quit is false until an SDL_QUIT event or an Escape key-down is
\* processed (no other event sets it), and the loop is left only with quit
\* set.
C9_QuitOnlyOnQuitSignal ==
    /\ ~quit
    /\ [][ (~quit /\ quit') => IsQuitSignal(event') ]_vars
    /\ [](pc = "exited" => quit)

\* The loop has been left.
C9_Witness == pc = "exited" /\ quit

\* C10: in every version of the event loop, once an SDL_QUIT event or an
\* Escape key-down has been processed quit is set, and the test of
\* while (!quit) that follows leaves the loop.
C10_QuitSignalSetsQuit == IsQuitSignal(event) => quit

\* A step of startup has just run and its outcome was not "ok".
StepFailed == pc \in AllInitSteps /\ pc' # pc /\ pc \notin init_ok'

\* The frame has been swapped or presented among these operations.
Presents(o) == \E i \in 1..Len(o) : o[i].op \in { "swap", "present" }

\* main has returned.
Returned == pc \in { "atexit", "done" }

\* C11: the main loop is entered only when every step of startup (SDL,
\* SDL_ttf, base path, font path, font, main window, GL context, GL loader,
\* vertex shader, fragment shader, linked program, info window, renderer)
\* has succeeded; the failure of any one step makes main return without
\* entering the loop, and no event is polled and no frame drawn unless all
\* steps succeeded.
C11_LoopOnlyAfterStartup ==
    /\ []((entered_loop \/ pc \in { "loop", "exited" })
             => init_ok = AllInitSteps)
    /\ [][ StepFailed => (pc' = "atexit" /\ ~entered_loop') ]_vars
    /\ [][ (event' # NoEvent \/ Presents(ops'))
             => (init_ok = AllInitSteps /\ entered_loop) ]_vars

\* An event is processed in the loop of a run that began at the start of
\* main.
C11_Witness ==
    /\ pc = "loop" /\ IsMotion(event)
    /\ init_ok = AllInitSteps /\ "vertex_shader" \in created

\* C12: main returns EXIT_SUCCESS exactly when the loop was entered and
\* then left with quit set, and returns EXIT_FAILURE whenever a step of
\* startup failed.
C12_ExitCode ==
    /\ (exit_code = "none") <=> ~Returned
    /\ (exit_code = "EXIT_SUCCESS") <=> (Returned /\ entered_loop /\ quit)
    /\ (Returned /\ init_ok # AllInitSteps) => exit_code = "EXIT_FAILURE"
    /\ (Returned /\ ~entered_loop) => init_ok # AllInitSteps

\* The loop was left on a quit signal and main has returned EXIT_SUCCESS.
C12_Witness ==
    /\ pc = "done" /\ exit_code = "EXIT_SUCCESS" /\ quit /\ entered_loop

\* C13: every failure the program detects prints a diagnostic to stderr and
\* makes main return EXIT_FAILURE: a step that prints a diagnostic, in
\* startup, in load_shader or in a render_text call of the frame loop, is
\* the last step before main returns.
C13_FailureEndsRun ==
    [][ /\ StepFailed => stderr' # << >>
        /\ stderr' # << >> => (pc' = "atexit" /\ exit_code' = "EXIT_FAILURE")
      ]_vars

\* The sequence in reverse.
Reverse(seq) == [ i \in 1..Len(seq) |-> seq[Len(seq) + 1 - i] ]

\* The resources of a sequence of operations that release or quit.
Released(o) ==
    LET rel == SelectSeq(o, LAMBDA x : x.op \in { "release", "quit" })
    IN  [ i \in 1..Len(rel) |-> rel[i].res ]

\* The order of release the claim gives.
C14_ClaimedOrder ==
    << "renderer", "info_window", "vao", "ebo", "vbo", "shader_program",
       "fragment_shader", "vertex_shader", "gl_context", "main_window",
       "font", "absolute_font_path", "absolute_bin_dir", "SDL_ttf", "SDL" >>

\* C14: whenever main has returned, on the clean exit and on every failure
\* path, cleanup() runs, and what it releases of the resources still held
\* comes in the claimed order (renderer, info window, VAO, EBO, VBO, shader
\* program, fragment shader, vertex shader, GL context, main window, font,
\* font path, base path, SDL_ttf, SDL), which is the reverse of the order
\* in which they were acquired.
C14_CleanupInReverseOrder ==
    [][ pc = "atexit" =>
          LET held(r) == r \in Range(live)
              named(r) == r \in Range(C14_ClaimedOrder)
          IN  /\ pc' = "done"
              /\ SelectSeq(Released(ops'), held)
                   = SelectSeq(C14_ClaimedOrder, held)
              /\ SelectSeq(Released(ops'), held)
                   = Reverse(SelectSeq(live, named)) ]_vars

\* cleanup() has run after a clean exit and released renderer first, SDL
\* last.
C14_Witness ==
    /\ pc = "done" /\ entered_loop /\ Len(ops) = 13
    /\ ops[1] = Op("release", "renderer") /\ ops[13] = Op("quit", "SDL")

\* An acquire or a release among the operations of a step.
OpsOf(o, kind) == { o[i].res : i \in { k \in 1..Len(o) : o[k].op = kind } }

\* The resources the claim names: the window, context, shader, buffer and
\* texture handles.
C15_Named ==
    { "main_window", "info_window", "gl_context", "vertex_shader",
      "fragment_shader", "shader_program", "vbo", "ebo", "vao",
      "text_texture" }

\* C15 as claimed: the window, context, shader, buffer and texture handles
\* are created only during startup and released only at shutdown; none is
\* created or released in between, in particular not in the frame loop.
C15_Claimed ==
    [][ /\ OpsOf(ops', "acquire") \cap C15_Named # {} => pc \in AllInitSteps
        /\ OpsOf(ops', "release") \cap C15_Named # {} => pc = "atexit" ]_vars

\* The two shader objects.
ShaderObjects == { "vertex_shader", "fragment_shader" }

\* The surface and the texture of a render_text call.
TextResources == { "text_surface", "text_texture" }

\* C15: every resource kept in a global handle is created at most once,
\* during startup, and, if created, released exactly once: by cleanup(), or,
\* for the two shader objects, before that by load_shader on a compile
\* failure or by main right after linking.  In the loop the only resources
\* created are the surface and the texture of the render_text calls, and a
\* frame leaves the set of live resources as it found it.
C15_CreatedAndReleasedOnce ==
    /\ [](misuse = {})
    /\ [](pc = "done" => Range(live) \cap HandleNames = {})
    /\ [][ /\ \A r \in OpsOf(ops', "acquire") \cap HandleNames :
                 pc \in AllInitSteps /\ r \notin created
           /\ \A r \in OpsOf(ops', "release") \cap HandleNames :
                 /\ r \in created'
                 /\ \/ pc = "atexit"
                    \/ r \in ShaderObjects
                         /\ pc \in ShaderSteps \cup { "glLinkProgram" }
           /\ pc = "loop" =>
                 /\ OpsOf(ops', "acquire") \subseteq TextResources
                 /\ OpsOf(ops', "release") \subseteq TextResources
                 /\ live' = live ]_vars

\* A frame in which a render_text call created and freed its texture has
\* been drawn in a run that began at the start of main.
C15_Witness ==
    /\ pc = "loop" /\ "vao" \in created
    /\ "text_texture" \in OpsOf(ops, "acquire")
    /\ "text_texture" \in OpsOf(ops, "release")

\* C16: for all vectors a and b with integer components of bounded size,
\* vec3f_cross(a, b) is the componentwise negation of vec3f_cross(b, a).
C16_CrossAntisymmetric ==
    calc.op = "vec3f_cross" =>
        LET back == vec3f_cross(calc.b, calc.a)
        IN  calc.out = << FNeg(back[1]), FNeg(back[2]), FNeg(back[3]) >>

\* The cross product of (1, 0, 0) and (0, 1, 0) has been computed: (0, 0, 1).
C16_Witness ==
    /\ calc.op = "vec3f_cross"
    /\ calc.a = << Scale, 0, 0 >> /\ calc.b = << 0, Scale, 0 >>
    /\ calc.out = << 0, 0, Scale >>

\* The entries of a matrix, as a tuple of tuples.
Entries(m) == [ i \in 1..4 |-> [ j \in 1..4 |-> m[i][j] ] ]

\* C17: for every 4x4 matrix M with integer entries of bounded size and the
\* identity matrix I, mat4f_product(I, M) = M and mat4f_product(M, I) = M.
C17_IdentityIsNeutral ==
    calc.op = "mat4f_product" =>
        /\ calc.a = Identity => Entries(calc.out) = Entries(calc.b)
        /\ calc.b = Identity => Entries(calc.out) = Entries(calc.a)

\* The product of the identity and a matrix that is not symmetric has been
\* computed.
C17_Witness ==
    /\ calc.op = "mat4f_product" /\ calc.a = Identity
    /\ calc.b[1][2] # calc.b[2][1]
    /\ Entries(calc.out) = Entries(calc.b)

\* C18: quit, once set, is never reset; the iteration in which it was set
\* is finished (an event polled after the quit signal is still handled, so
\* a motion event with the button held still moves the camera, and one
\* frame is still drawn and presented); then the loop is left, no event is
\* polled any more, main returns EXIT_SUCCESS and cleanup() runs once.
C18_QuitFinishesIteration ==
    /\ [][ quit => quit' ]_vars
    /\ [][ (quit /\ IsMotion(event') /\ is_lmb_pressed)
             => /\ drags' = drags + 1
                /\ yaw_deg' = YawAfter(yaw_deg, event'.xrel)
                /\ pitch_deg' = PitchAfter(pitch_deg, event'.yrel) ]_vars
    /\ [][ (quit /\ pc = "loop" /\ event' = NoEvent)
             => (Presents(ops') /\ pc' = "exited") ]_vars
    /\ [][ pc # "loop" => (event' = event /\ ~Presents(ops')) ]_vars
    /\ [][ pc = "exited" => (pc' = "atexit" /\ exit_code' = "EXIT_SUCCESS")
         ]_vars
    /\ [](cleanup_runs = IF pc = "done" THEN 1 ELSE 0)

\* A drag has been made by a motion event polled after the quit signal, in
\* the iteration that is the last.
C18_Witness ==
    /\ quit /\ pc = "loop" /\ IsMotion(event) /\ is_lmb_pressed
    /\ drags = 1 /\ init_ok = AllInitSteps

\* C19: no handle is released twice and cleanup() releases only what was
\* acquired: a handle variable is non-NULL or non-zero only while its
\* resource is live, the shader handles are zeroed when main deletes the
\* shader objects after linking, so cleanup() skips them, and cleanup()
\* makes no gl* delete call unless gladLoadGLLoader succeeded.
C19_NoDoubleRelease ==
    /\ [](misuse = {})
    /\ [](pc # "done" => handles \subseteq Range(live))
    /\ [][ pc = "glLinkProgram" => handles' \cap ShaderObjects = {} ]_vars
    /\ [][ pc = "atexit" =>
             \A r \in OpsOf(ops', "release") :
                 /\ r \in handles /\ r \in Range(live)
                 /\ r \in GLObjects => "gladLoadGLLoader" \in init_ok ]_vars

\* cleanup() has run after a failed link: it deleted the program and
\* skipped the two shader objects, deleted before.
C19_Witness ==
    /\ pc = "done" /\ "glLinkProgram" \notin init_ok
    /\ "shader_program" \in OpsOf(ops, "release")
    /\ OpsOf(ops, "release") \cap ShaderObjects = {}
    /\ ShaderObjects \subseteq created

\* C20: load_shader releases every temporary resource it acquires before it
\* returns, on success and on every failure path (the absolute-path buffer,
\* the file, the source buffer and, on a compile failure, the shader
\* object): the only resource that outlives a call is the shader object it
\* returns.
C20_LoadShaderFreesTemporaries ==
    [][ (pc \in ShaderSteps)
          => ((Range(live') \ Range(live)) \subseteq ShaderObjects) ]_vars

\* C21: load_shader never reads or writes outside the buffer it allocated:
\* whatever fseek, ftell and fread do, ftell returning -1 and a short read
\* included, the allocation size shader_code_length + 1 is positive, the
\* size given to fread does not exceed it, and every offset written (by
\* fread, and the terminating NUL) or read lies inside the buffer.
C21_ShaderBufferBounds ==
    "shader_code_size" \in DOMAIN shader_call =>
        /\ shader_call.shader_code_size > 0
        /\ shader_call.fread_size <= shader_call.shader_code_size
        /\ \A i \in shader_call.written \cup shader_call.scanned :
               0 <= i /\ i < shader_call.shader_code_size

====
